---- MODULE Spec2Model ----
(***************************************************************************)
(* Ford-Fulkerson maximum flow with a breadth-first and a depth-first      *)
(* augmenting-path search (src/src/algorithms, src/src/utils), run on a    *)
(* network built through GraphInputHandler or by a test fixture.           *)
(*                                                                         *)
(* Python objects that the code shares by reference (networkx graphs, the  *)
(* tracker's visited list) live in two heaps, `graphs` and `lists`; a      *)
(* field that holds such an object holds its index in the heap.            *)
(***************************************************************************)
EXTENDS Integers, Sequences, FiniteSets, TLC

\* Bounds of the model: node identifiers 0..MaxNode in a handler-built network,
\* capacities 1..MaxCap, at most MaxEdges edges added through the handler.
MaxNode == 2
MaxCap == 2
\* the smallest capacity the caller passes to add_edge
MinCap == -1
MaxEdges == 4
\* a call with source = sink, whose loop has no end of its own, is followed
\* for MaxAugment augmentations
MaxAugment == 3
\* at most MaxDirect direct calls of increment_step, and of add_path, on a tracker
MaxDirect == 2
\* at most MaxCalls compute calls on one instance
MaxCalls == 2

Algs == {"bfs", "dfs"}
Methods == {"compute_max_flow", "compute_max_flow_with_history"}
None == <<>>
NoRef == 0

VARIABLES
    graphs,           \* heap of networkx DiGraph objects
    lists,            \* heap of Python list objects (MetricsTracker.visited)
    phase,            \* "nodes": a handler that is adding nodes and edges; "build": the
                      \* handler, its nodes added, is adding edges; "ready": graph handed
                      \* out; "unit": a test that also calls an instance's methods directly
    source, sink,     \* the node identifiers the caller passes to compute
    pc,               \* per algorithm instance: none, ready, search, augment, done, raised
    method,           \* which compute method the running / last call is
    residual_graph,   \* self.residual_graph (index in graphs)
    metrics,          \* self.metrics, a MetricsTracker
    max_flow,         \* local max_flow of the call
    paths,            \* local paths
    residual_graphs,  \* local residual_graphs (indices in graphs)
    metrics_history,  \* local metrics_history
    path,             \* local path
    ret,              \* what the call returned or raised
    result,           \* what the caller's latest direct call returned or raised
    calls             \* per algorithm instance: the compute calls made on it so far

vars == <<graphs, lists, phase, source, sink, pc, method, residual_graph, metrics,
          max_flow, paths, residual_graphs, metrics_history, path, ret, result,
          calls>>

\* The caller's network (GraphInputHandler.graph, or the fixture's G) is the
\* first object of the graph heap.
graph == 1

----------------------------------------------------------------------------
\* networkx.DiGraph: nodes in insertion order, per node its successors in
\* insertion order, per edge its capacity attribute.

RECURSIVE SeqToSet(_)
SeqToSet(s) == IF s = <<>> THEN {} ELSE {Head(s)} \cup SeqToSet(Tail(s))

NodesOf(g) == SeqToSet(g.nodes)

has_node(g, n) == n \in NodesOf(g)

has_edge(g, u, v) == <<u, v>> \in DOMAIN g.cap

add_edge(g, u, v, c) ==
    IF has_edge(g, u, v)
    THEN [g EXCEPT !.cap[<<u, v>>] = c]
    ELSE [g EXCEPT !.adj[u] = Append(@, v), !.cap = (<<u, v>> :> c) @@ @]

RECURSIVE EdgesFrom(_, _)
EdgesFrom(g, i) ==
    IF i > Len(g.nodes) THEN <<>>
    ELSE LET u == g.nodes[i]
         IN [j \in 1..Len(g.adj[u]) |-> <<u, g.adj[u][j]>>] \o EdgesFrom(g, i + 1)

\* graph.edges(): by node in node order, then by successor in adjacency order
edges(g) == EdgesFrom(g, 1)

number_of_edges(g) == Cardinality(DOMAIN g.cap)

EmptyGraph(n) ==
    [nodes |-> [i \in 1..(n + 1) |-> i - 1],
     type  |-> [u \in 0..n |-> IF u = 0 THEN "source"
                               ELSE IF u = n THEN "sink" ELSE "intermediate"],
     adj   |-> [u \in 0..n |-> <<>>],
     cap   |-> <<>>]

\* nx.DiGraph()
NullGraph == [nodes |-> <<>>, type |-> <<>>, adj |-> <<>>, cap |-> <<>>]

\* DiGraph.add_node(n, type=t): a new node goes last; a node that exists gets
\* the new type
add_node(g, n, t) ==
    IF has_node(g, n)
    THEN [g EXCEPT !.type[n] = t]
    ELSE [g EXCEPT !.nodes = Append(@, n), !.type = (n :> t) @@ @,
                   !.adj = (n :> <<>>) @@ @]

RECURSIVE AddEdges(_, _)
AddEdges(g, es) ==
    IF es = <<>> THEN g
    ELSE AddEdges(add_edge(g, Head(es)[1], Head(es)[2], Head(es)[3]), Tail(es))

\* tests/test_algorithms.py create_test_graph
TestGraph ==
    AddEdges(EmptyGraph(3),
             << <<0, 1, 10>>, <<0, 2, 5>>, <<1, 2, 2>>, <<1, 3, 8>>, <<2, 3, 7>> >>)

\* spec.md section 8, Scenario A
ScenarioA ==
    AddEdges(EmptyGraph(3),
             << <<0, 1, 10>>, <<0, 2, 10>>, <<1, 2, 2>>, <<1, 3, 4>>, <<2, 3, 9>> >>)

----------------------------------------------------------------------------
\* MaxFlowBase.__init__ / BFSMaxFlow.__init__ / DFSMaxFlow.__init__

RECURSIVE AddReverseEdges(_, _)
AddReverseEdges(r, es) ==
    IF es = <<>> THEN r
    ELSE LET u == Head(es)[1]
             v == Head(es)[2]
         IN AddReverseEdges(IF has_edge(r, v, u) THEN r ELSE add_edge(r, v, u, 0),
                            Tail(es))

\* residual_graph = graph.copy(), then a reverse edge of capacity 0 for every
\* edge of the network that has no reverse edge yet
InitResidual(g) == AddReverseEdges(g, edges(g))

\* mutant: no copy is made, the same object is handed back
CopyGraphAlias(heap, ref) == [heap |-> heap, ref |-> ref]

\* DiGraph.copy(): a new object with its own attribute dictionaries
CopyGraph(heap, ref) == [heap |-> Append(heap, heap[ref]), ref |-> Len(heap) + 1]

----------------------------------------------------------------------------
\* MetricsTracker

NewTracker(listRef) ==
    [start_time |-> "None", steps |-> 0, paths |-> 0, visited |-> listRef,
     residual_caps |-> <<>>, total_flow |-> 0]

NullTracker == NewTracker(NoRef)

start_tracking(t, listRef) ==
    [start_time |-> "set", steps |-> 0, paths |-> 0, visited |-> listRef,
     residual_caps |-> <<>>, total_flow |-> 0]

increment_step(t) == [t EXCEPT !.steps = @ + 1]

\* float('inf'): larger than every capacity the model builds
Inf == 1000000

\* float addition: inf + x = inf
FloatAdd(x, y) == IF x >= Inf \/ y >= Inf THEN Inf ELSE x + y

\* mutant: total_flow is overwritten instead of accumulated
add_path_overwrite(t, flow) == [t EXCEPT !.paths = @ + 1, !.total_flow = flow]

add_path(t, flow) == [t EXCEPT !.paths = @ + 1, !.total_flow = FloatAdd(@, flow)]

\* mutant: the node is appended whether or not the list holds it
add_visited_node_unchecked(l, node) == Append(l, node)

\* acts on the list object: appended only when not yet in the list
add_visited_node(l, node) == IF node \in SeqToSet(l) THEN l ELSE Append(l, node)

update_residual_capacity(t, edge, capacity) ==
    [t EXCEPT !.residual_caps =
        IF edge \in DOMAIN @ THEN [@ EXCEPT ![edge] = capacity]
        ELSE (edge :> capacity) @@ @]

\* mutant: get_metrics has no start_time check
get_metrics_never_raises(t) == FALSE

\* if self.start_time is None: raise RuntimeError("Metrics tracking not started")
get_metrics_raises(t) == t.start_time = "None"

\* the AlgorithmMetrics returned: visited_nodes is the tracker's own list
\* object, residual_capacities is a new dict; execution_time is left out
get_metrics(t) ==
    [steps_count |-> t.steps, paths_found |-> t.paths, total_flow |-> t.total_flow,
     visited_nodes |-> t.visited, residual_capacities |-> t.residual_caps]

----------------------------------------------------------------------------
\* BFSMaxFlow.find_augmenting_path. The result holds the path (None when the
\* queue runs empty) and the nodes examined, one per increment_step call.

RECURSIVE BFSNeighbors(_, _, _, _, _, _)
\* mutant: a neighbour is taken whatever the capacity of the edge to it
BFSNeighborsAnyCapacity(g, current, cpath, i, visited, queue) ==
    IF i > Len(g.adj[current]) THEN [visited |-> visited, queue |-> queue]
    ELSE LET neighbor == g.adj[current][i]
         IN IF neighbor \notin visited
            THEN BFSNeighbors(g, current, cpath, i + 1, visited \cup {neighbor},
                              Append(queue, <<neighbor, Append(cpath, neighbor)>>))
            ELSE BFSNeighbors(g, current, cpath, i + 1, visited, queue)

BFSNeighbors(g, current, cpath, i, visited, queue) ==
    IF i > Len(g.adj[current]) THEN [visited |-> visited, queue |-> queue]
    ELSE LET neighbor == g.adj[current][i]
         IN IF neighbor \notin visited /\ g.cap[<<current, neighbor>>] > 0
            THEN BFSNeighbors(g, current, cpath, i + 1, visited \cup {neighbor},
                              Append(queue, <<neighbor, Append(cpath, neighbor)>>))
            ELSE BFSNeighbors(g, current, cpath, i + 1, visited, queue)

RECURSIVE BFSLoop(_, _, _, _, _)
BFSLoop(g, snk, queue, visited, examined) ==
    IF queue = <<>> THEN [path |-> None, examined |-> examined]
    ELSE LET current == Head(queue)[1]
             cpath == Head(queue)[2]
             ex == Append(examined, current)
         IN IF current = snk THEN [path |-> cpath, examined |-> ex]
            ELSE LET n == BFSNeighbors(g, current, cpath, 1, visited, Tail(queue))
                 IN BFSLoop(g, snk, n.queue, n.visited, ex)

RECURSIVE DFSVisit(_, _, _, _, _)
\* mutant: the queue is replaced by a descent along the first open edge
BFSFindAugmentingPathDepthFirst(g, src, snk) ==
    DFSVisit(g, snk, {}, <<src>>, <<>>)

BFSFindAugmentingPath(g, src, snk) ==
    BFSLoop(g, snk, << <<src, <<src>>>> >>, {src}, <<>>)

----------------------------------------------------------------------------
\* DFSMaxFlow.find_augmenting_path: recursive, the visited set shared by the
\* whole recursion; a node is taken out of it again when the descent below
\* it fails.

RECURSIVE DFSNeighbors(_, _, _, _, _, _)

\* mutant: the loop over the neighbours gives up after the first neighbour
DFSFirstNeighborOnly(g, snk, visited, cpath, examined, i) ==
    LET current == cpath[Len(cpath)]
    IN IF i > Len(g.adj[current]) \/ i > 1
       THEN [path |-> None, visited |-> visited \ {current}, examined |-> examined]
       ELSE LET neighbor == g.adj[current][i]
            IN IF neighbor \notin visited /\ g.cap[<<current, neighbor>>] > 0
               THEN LET r == DFSVisit(g, snk, visited, Append(cpath, neighbor), examined)
                    IN IF r.path # None THEN r
                       ELSE DFSNeighbors(g, snk, r.visited, cpath, r.examined, i + 1)
               ELSE DFSNeighbors(g, snk, visited, cpath, examined, i + 1)

DFSNeighbors(g, snk, visited, cpath, examined, i) ==
    LET current == cpath[Len(cpath)]
    IN IF i > Len(g.adj[current])
       THEN [path |-> None, visited |-> visited \ {current}, examined |-> examined]
       ELSE LET neighbor == g.adj[current][i]
            IN IF neighbor \notin visited /\ g.cap[<<current, neighbor>>] > 0
               THEN LET r == DFSVisit(g, snk, visited, Append(cpath, neighbor), examined)
                    IN IF r.path # None THEN r
                       ELSE DFSNeighbors(g, snk, r.visited, cpath, r.examined, i + 1)
               ELSE DFSNeighbors(g, snk, visited, cpath, examined, i + 1)

DFSVisit(g, snk, visited, cpath, examined) ==
    LET current == cpath[Len(cpath)]
        ex == Append(examined, current)
    IN IF current = snk
       THEN [path |-> cpath, visited |-> visited, examined |-> ex]
       ELSE DFSNeighbors(g, snk, visited \cup {current}, cpath, ex, 1)

DFSFindAugmentingPath(g, src, snk) ==
    LET r == DFSVisit(g, snk, {}, <<src>>, <<>>)
    IN [path |-> r.path, examined |-> r.examined]

find_augmenting_path(a, g, src, snk) ==
    IF a = "bfs" THEN BFSFindAugmentingPath(g, src, snk)
    ELSE DFSFindAugmentingPath(g, src, snk)

----------------------------------------------------------------------------
\* find_min_capacity and update_residual_capacities (the same code in
\* MaxFlowBase, BFSMaxFlow and DFSMaxFlow)

Min(a, b) == IF a <= b THEN a ELSE b

RECURSIVE MinCapacityFrom(_, _, _, _)
MinCapacityFrom(g, p, i, min_capacity) ==
    IF i > Len(p) - 1 THEN min_capacity
    ELSE MinCapacityFrom(g, p, i + 1, Min(min_capacity, g.cap[<<p[i], p[i + 1]>>]))

\* mutant: the capacity of the first edge of the path only
find_first_capacity(g, p) == IF Len(p) < 2 THEN Inf ELSE g.cap[<<p[1], p[2]>>]

\* mutant: the largest capacity on the path (max for min)
RECURSIVE MaxCapacityFrom(_, _, _, _)
MaxCapacityFrom(g, p, i, max_capacity) ==
    IF i > Len(p) - 1 THEN max_capacity
    ELSE MaxCapacityFrom(g, p, i + 1,
                         IF g.cap[<<p[i], p[i + 1]>>] > max_capacity
                         THEN g.cap[<<p[i], p[i + 1]>>] ELSE max_capacity)

find_max_capacity(g, p) == MaxCapacityFrom(g, p, 1, 0)

find_min_capacity(g, p) == MinCapacityFrom(g, p, 1, Inf)

\* self.residual_graph[u][v] raises KeyError when (u, v) is no edge
find_min_capacity_raises(g, p) ==
    \E i \in 1..(Len(p) - 1) : ~has_edge(g, p[i], p[i + 1])

\* mutant: the backward edge is not credited
UpdateEdgeForwardOnly(gt, u, v, flow) ==
    LET g1 == [gt.g EXCEPT !.cap[<<u, v>>] = @ - flow]
        t1 == update_residual_capacity(gt.t, <<u, v>>, g1.cap[<<u, v>>])
    IN [g |-> g1, t |-> t1]

\* one iteration of the loop of update_residual_capacities on the pair
\* [g: residual graph, t: tracker]
UpdateEdge(gt, u, v, flow) ==
    LET g1 == [gt.g EXCEPT !.cap[<<u, v>>] = @ - flow]
        t1 == update_residual_capacity(gt.t, <<u, v>>, g1.cap[<<u, v>>])
        g2 == [g1 EXCEPT !.cap[<<v, u>>] = @ + flow]
        t2 == update_residual_capacity(t1, <<v, u>>, g2.cap[<<v, u>>])
    IN [g |-> g2, t |-> t2]

RECURSIVE UpdateFrom(_, _, _, _)
\* mutant: the residual capacities are not updated
UpdateFromNothing(gt, p, i, flow) == gt

\* mutant: the loop stops one edge early
UpdateFromSkipLast(gt, p, i, flow) ==
    IF i > Len(p) - 2 THEN gt
    ELSE UpdateFrom(UpdateEdge(gt, p[i], p[i + 1], flow), p, i + 1, flow)

UpdateFrom(gt, p, i, flow) ==
    IF i > Len(p) - 1 THEN gt
    ELSE UpdateFrom(UpdateEdge(gt, p[i], p[i + 1], flow), p, i + 1, flow)

update_residual_capacities(g, t, p, flow) == UpdateFrom([g |-> g, t |-> t], p, 1, flow)

----------------------------------------------------------------------------
\* The state machine

RECURSIVE RecordVisited(_, _)
\* add_visited_node for every node of `examined`, in order
RecordVisited(l, examined) ==
    IF examined = <<>> THEN l
    ELSE RecordVisited(add_visited_node(l, Head(examined)), Tail(examined))

RECURSIVE CountSteps(_, _)
\* increment_step for every node of `examined`
CountSteps(t, examined) ==
    IF examined = <<>> THEN t ELSE CountSteps(increment_step(t), Tail(examined))

Running(a) == pc[a] \in {"search", "augment"}

NoneRunning == \A a \in Algs : ~Running(a)

NoRet == [kind |-> "none", value |-> 0]

\* the latest direct call raised nothing and returned nothing of interest
NoResult == [op |-> "none", kind |-> "none", arg |-> <<>>, value |-> 0]

InitAlgs ==
    /\ pc = [a \in Algs |-> "none"]
    /\ method = [a \in Algs |-> "none"]
    /\ residual_graph = [a \in Algs |-> NoRef]
    /\ metrics = [a \in Algs |-> NullTracker]
    /\ max_flow = [a \in Algs |-> 0]
    /\ paths = [a \in Algs |-> <<>>]
    /\ residual_graphs = [a \in Algs |-> <<>>]
    /\ metrics_history = [a \in Algs |-> <<>>]
    /\ path = [a \in Algs |-> None]
    /\ ret = [a \in Algs |-> NoRet]
    /\ calls = [a \in Algs |-> 0]
    /\ result = NoResult
    /\ lists = <<>>

\* what the caller may pass as source and as sink: a node of the handler's
\* graph or an identifier that is no node of it
CallNodes == 0..(MaxNode + 1)

\* A GraphInputHandler whose nodes 0..MaxNode have been added (node 0 the
\* source, the last node the sink, as the fixtures of tests/test_integration.py
\* do), no edge yet; the caller will pass any two identifiers to compute.
InitHandler ==
    /\ graphs = <<EmptyGraph(MaxNode)>>
    /\ phase = "build"
    /\ source \in CallNodes
    /\ sink \in CallNodes

\* The fixture of tests/test_algorithms.py and the network of Scenario A,
\* computed from 0 to 3
InitFixture ==
    /\ graphs \in {<<TestGraph>>, <<ScenarioA>>}
    /\ phase = "ready"
    /\ source = 0
    /\ sink = 3

\* A unit test on the fixture of tests/test_algorithms.py: besides computing,
\* it calls methods of the instance and of its tracker directly
InitUnit ==
    /\ graphs = <<TestGraph>>
    /\ phase = "unit"
    /\ source = 0
    /\ sink = 3

\* A new GraphInputHandler, to which the caller adds nodes 0..MaxNode-1 with
\* any types, and edges, and which it validates (tests/test_graph.py)
InitNodes ==
    /\ graphs = <<NullGraph>>
    /\ phase = "nodes"
    /\ source = 0
    /\ sink = 1

Init == InitAlgs /\ (InitHandler \/ InitFixture \/ InitUnit \/ InitNodes)

algVars == <<pc, method, residual_graph, metrics, max_flow, paths, residual_graphs,
             metrics_history, path, ret, calls>>

ValueError(op) == [op |-> op, kind |-> "ValueError", arg |-> <<>>, value |-> 0]

NodeTypes == {"source", "sink", "intermediate"}

\* GraphInputHandler.add_node: ValueError for a type that is none of the
\* three, else the node is added with its type
AddNode(n, t) ==
    /\ phase = "nodes"
    /\ IF t \notin NodeTypes
       THEN /\ result' = ValueError("add_node")
            /\ UNCHANGED graphs
       ELSE /\ graphs' = [graphs EXCEPT ![graph] = add_node(@, n, t)]
            /\ result' = NoResult
    /\ UNCHANGED <<lists, phase, source, sink, algVars>>

\* mutant: the test for a sink is missing
validate_graph_raises_without_sink_test(g) ==
    \/ \A n \in NodesOf(g) : g.type[n] # "source"
    \/ \E e \in DOMAIN g.cap : g.cap[e] <= 0

\* GraphInputHandler.validate_graph raises ValueError: no source, no sink, or
\* an edge whose capacity is not positive (the graph is always directed)
validate_graph_raises(g) ==
    \/ \A n \in NodesOf(g) : g.type[n] # "source"
    \/ \A n \in NodesOf(g) : g.type[n] # "sink"
    \/ \E e \in DOMAIN g.cap : g.cap[e] <= 0

\* handler.validate_graph()
ValidateGraph ==
    /\ phase \in {"nodes", "build"}
    /\ result' = IF validate_graph_raises(graphs[graph])
                 THEN ValueError("validate_graph")
                 ELSE [op |-> "validate_graph", kind |-> "True", arg |-> <<>>, value |-> 0]
    /\ UNCHANGED <<graphs, lists, phase, source, sink, algVars>>

\* mutant: the capacity is tested after the edge has been added
AddEdgeThenCheck(u, v, capacity) ==
    /\ phase \in {"nodes", "build"}
    /\ u # v
    /\ has_node(graphs[graph], u) /\ has_node(graphs[graph], v)
    /\ has_edge(graphs[graph], u, v) \/ number_of_edges(graphs[graph]) < MaxEdges
    /\ graphs' = [graphs EXCEPT ![graph] = add_edge(@, u, v, capacity)]
    /\ result' = IF capacity <= 0 THEN ValueError("add_edge") ELSE NoResult
    /\ UNCHANGED <<lists, phase, source, sink, algVars>>

\* GraphInputHandler.add_edge (no self-loops in the model): ValueError for a
\* capacity <= 0 and for a node that is not in the graph; else the edge is
\* added, and an edge that exists gets the new capacity
AddEdge(u, v, capacity) ==
    /\ phase \in {"nodes", "build"}
    /\ u # v
    /\ IF capacity <= 0 \/ ~has_node(graphs[graph], u) \/ ~has_node(graphs[graph], v)
       THEN /\ result' = ValueError("add_edge")
            /\ UNCHANGED graphs
       ELSE /\ has_edge(graphs[graph], u, v) \/ number_of_edges(graphs[graph]) < MaxEdges
            /\ graphs' = [graphs EXCEPT ![graph] = add_edge(@, u, v, capacity)]
            /\ result' = NoResult
    /\ UNCHANGED <<lists, phase, source, sink, algVars>>

\* GraphInputHandler.get_graph: the network is handed to the algorithms
GetGraph ==
    /\ phase = "build"
    /\ phase' = "ready"
    /\ result' = NoResult
    /\ UNCHANGED <<graphs, lists, source, sink, algVars>>

\* mutant: the residual graph is the caller's graph, not a copy of it
ConstructWithoutCopy(a) ==
    /\ phase \in {"ready", "unit"}
    /\ pc[a] = "none"
    /\ a = "dfs" => (pc["bfs"] \in {"done", "raised"} /\ calls["bfs"] = 1)
    /\ graphs' = [graphs EXCEPT ![graph] = InitResidual(@)]
    /\ residual_graph' = [residual_graph EXCEPT ![a] = graph]
    /\ lists' = Append(lists, <<>>)
    /\ metrics' = [metrics EXCEPT ![a] = NewTracker(Len(lists) + 1)]
    /\ pc' = [pc EXCEPT ![a] = "ready"]
    /\ result' = NoResult
    /\ UNCHANGED <<phase, source, sink, method, max_flow, paths, residual_graphs,
                   metrics_history, path, ret, calls>>

\* BFSMaxFlow(graph) / DFSMaxFlow(graph). The caller is the one of
\* tests/test_integration.py test_graph_generation_to_algorithm: it builds and
\* runs the BFS instance first, then the DFS instance on the same network.
Construct(a) ==
    /\ phase \in {"ready", "unit"}
    /\ pc[a] = "none"
    /\ a = "dfs" => (pc["bfs"] \in {"done", "raised"} /\ calls["bfs"] = 1)
    /\ graphs' = Append(graphs, InitResidual(graphs[graph]))
    /\ residual_graph' = [residual_graph EXCEPT ![a] = Len(graphs) + 1]
    /\ lists' = Append(lists, <<>>)
    /\ metrics' = [metrics EXCEPT ![a] = NewTracker(Len(lists) + 1)]
    /\ pc' = [pc EXCEPT ![a] = "ready"]
    /\ result' = NoResult
    /\ UNCHANGED <<phase, source, sink, method, max_flow, paths, residual_graphs,
                   metrics_history, path, ret, calls>>

\* mutant: the node check comes after start_tracking
RaiseKeyErrorAfterTracking(a, m) ==
    /\ lists' = Append(lists, <<>>)
    /\ metrics' = [metrics EXCEPT ![a] = start_tracking(@, Len(lists) + 1)]
    /\ pc' = [pc EXCEPT ![a] = "raised"]
    /\ ret' = [ret EXCEPT ![a] = [kind |-> "KeyError", value |-> 0]]
    /\ UNCHANGED <<graphs, max_flow, paths, residual_graphs, metrics_history>>

\* raise KeyError("Source or sink node not in graph"), the first statement of
\* both compute methods
RaiseKeyError(a, m) ==
    /\ pc' = [pc EXCEPT ![a] = "raised"]
    /\ ret' = [ret EXCEPT ![a] = [kind |-> "KeyError", value |-> 0]]
    /\ UNCHANGED <<graphs, lists, metrics, max_flow, paths, residual_graphs,
                   metrics_history>>

\* mutant: a call starts from the residual graph of the network again
EnterLoopOnNewResidual(a, m) ==
    /\ lists' = Append(lists, <<>>)
    /\ metrics' = [metrics EXCEPT ![a] = start_tracking(@, Len(lists) + 1)]
    /\ max_flow' = [max_flow EXCEPT ![a] = 0]
    /\ LET heap == [graphs EXCEPT ![residual_graph[a]] = InitResidual(graphs[graph])]
       IN IF m = "compute_max_flow_with_history"
          THEN LET c == CopyGraph(heap, residual_graph[a])
               IN /\ graphs' = c.heap
                  /\ residual_graphs' = [residual_graphs EXCEPT ![a] = <<c.ref>>]
          ELSE /\ graphs' = heap
               /\ UNCHANGED residual_graphs
    /\ paths' = [paths EXCEPT ![a] = <<>>]
    /\ metrics_history' = [metrics_history EXCEPT ![a] = <<>>]
    /\ pc' = [pc EXCEPT ![a] = "search"]
    /\ UNCHANGED ret

\* the statements of a compute method between the node check and the loop
EnterLoop(a, m) ==
    /\ lists' = Append(lists, <<>>)
    /\ metrics' = [metrics EXCEPT ![a] = start_tracking(@, Len(lists) + 1)]
    /\ max_flow' = [max_flow EXCEPT ![a] = 0]
    /\ IF m = "compute_max_flow_with_history"
       THEN LET c == CopyGraph(graphs, residual_graph[a])
            IN /\ graphs' = c.heap
               /\ residual_graphs' = [residual_graphs EXCEPT ![a] = <<c.ref>>]
       ELSE UNCHANGED <<graphs, residual_graphs>>
    /\ paths' = [paths EXCEPT ![a] = <<>>]
    /\ metrics_history' = [metrics_history EXCEPT ![a] = <<>>]
    /\ pc' = [pc EXCEPT ![a] = "search"]
    /\ UNCHANGED ret

\* The caller may call compute again, with the same source and sink, on an
\* instance whose call has returned; it does so at the end of its script, on
\* the instance it built last.
AgainAfterReturn(a) ==
    /\ pc[a] = "done"
    /\ calls[a] < MaxCalls
    /\ a = "bfs" => pc["dfs"] = "none"

\* compute_max_flow(source, sink) / compute_max_flow_with_history(source, sink)
\* up to the loop
Call(a, m) ==
    /\ pc[a] = "ready" \/ AgainAfterReturn(a)
    /\ NoneRunning
    /\ method' = [method EXCEPT ![a] = m]
    /\ calls' = [calls EXCEPT ![a] = @ + 1]
    /\ IF ~has_node(graphs[residual_graph[a]], source)
          \/ ~has_node(graphs[residual_graph[a]], sink)
       THEN RaiseKeyError(a, m)
       ELSE EnterLoop(a, m)
    /\ result' = NoResult
    /\ UNCHANGED <<phase, source, sink, residual_graph, path>>

Returned(a) ==
    IF method[a] = "compute_max_flow_with_history"
    THEN [kind |-> "tuple",
          value |-> <<max_flow[a], paths[a], residual_graphs[a], metrics_history[a]>>]
    ELSE [kind |-> "float", value |-> max_flow[a]]

\* path = self.find_augmenting_path(source, sink); if not path: break; return
Search(a) ==
    /\ pc[a] = "search"
    /\ LET r == find_augmenting_path(a, graphs[residual_graph[a]], source, sink)
       IN /\ metrics' = [metrics EXCEPT ![a] = CountSteps(@, r.examined)]
          /\ lists' = [lists EXCEPT ![metrics[a].visited] = RecordVisited(@, r.examined)]
          /\ path' = [path EXCEPT ![a] = r.path]
          /\ IF r.path = None
             THEN /\ pc' = [pc EXCEPT ![a] = "done"]
                  /\ ret' = [ret EXCEPT ![a] = Returned(a)]
             ELSE /\ pc' = [pc EXCEPT ![a] = "augment"]
                  /\ UNCHANGED ret
    /\ UNCHANGED <<graphs, phase, source, sink, method, residual_graph, max_flow, paths,
                   residual_graphs, metrics_history, result, calls>>

\* the rest of the loop body: bottleneck, update, accumulate, record history
Augment(a) ==
    /\ pc[a] = "augment"
    /\ source = sink => metrics[a].paths < MaxAugment
    /\ LET rg == residual_graph[a]
           flow == find_min_capacity(graphs[rg], path[a])
           u == update_residual_capacities(graphs[rg], metrics[a], path[a], flow)
           t == add_path(u.t, flow)
           heap == [graphs EXCEPT ![rg] = u.g]
       IN /\ max_flow' = [max_flow EXCEPT ![a] = FloatAdd(@, flow)]
          /\ metrics' = [metrics EXCEPT ![a] = t]
          /\ IF method[a] = "compute_max_flow_with_history"
             THEN LET c == CopyGraph(heap, rg)
                  IN /\ graphs' = c.heap
                     /\ paths' = [paths EXCEPT ![a] = Append(@, path[a])]
                     /\ residual_graphs' = [residual_graphs EXCEPT ![a] = Append(@, c.ref)]
                     /\ metrics_history' =
                            [metrics_history EXCEPT ![a] = Append(@, get_metrics(t))]
             ELSE /\ graphs' = heap
                  /\ UNCHANGED <<paths, residual_graphs, metrics_history>>
    /\ pc' = [pc EXCEPT ![a] = "search"]
    /\ UNCHANGED <<lists, phase, source, sink, method, residual_graph, path, ret, result,
                   calls>>

\* the paths a unit test passes to find_min_capacity: no node, one node, two
\* nodes of the fixture, or three of which the first is node 0; edges between
\* them or not
UnitPaths ==
    LET N == NodesOf(TestGraph)
    IN {<<>>} \cup {<<u>> : u \in N} \cup {<<u, v>> : u, v \in N}
              \cup {<<0, v, w>> : v, w \in N}

\* a direct call on instance a is made between its construction and its
\* compute call
DirectCall(a) == phase = "unit" /\ pc[a] = "ready"

\* alg.metrics.increment_step()
IncrementStep(a) ==
    /\ DirectCall(a)
    /\ metrics[a].steps < MaxDirect
    /\ metrics' = [metrics EXCEPT ![a] = increment_step(@)]
    /\ result' = [op |-> "increment_step", kind |-> "none", arg |-> <<a>>, value |-> 0]
    /\ UNCHANGED <<graphs, lists, phase, source, sink, pc, method, residual_graph,
                   max_flow, paths, residual_graphs, metrics_history, path, ret, calls>>

\* alg.metrics.add_path(flow)
AddPath(a, flow) ==
    /\ DirectCall(a)
    /\ metrics[a].paths < MaxDirect
    /\ metrics' = [metrics EXCEPT ![a] = add_path(@, flow)]
    /\ result' = [op |-> "add_path", kind |-> "none", arg |-> <<a>>, value |-> 0]
    /\ UNCHANGED <<graphs, lists, phase, source, sink, pc, method, residual_graph,
                   max_flow, paths, residual_graphs, metrics_history, path, ret, calls>>

\* alg.get_metrics(), before the compute call or after it returned
GetMetrics(a) ==
    /\ phase = "unit"
    /\ pc[a] \in {"ready", "done"}
    /\ NoneRunning
    /\ result' = IF get_metrics_raises(metrics[a])
                 THEN [op |-> "get_metrics", kind |-> "RuntimeError", arg |-> <<a>>,
                       value |-> 0]
                 ELSE [op |-> "get_metrics", kind |-> "AlgorithmMetrics", arg |-> <<a>>,
                       value |-> get_metrics(metrics[a])]
    /\ UNCHANGED <<graphs, lists, phase, source, sink, algVars>>

\* alg.find_min_capacity(p)
FindMinCapacity(a, p) ==
    /\ DirectCall(a)
    /\ result' = IF find_min_capacity_raises(graphs[residual_graph[a]], p)
                 THEN [op |-> "find_min_capacity", kind |-> "KeyError", arg |-> <<a, p>>,
                       value |-> 0]
                 ELSE [op |-> "find_min_capacity", kind |-> "float", arg |-> <<a, p>>,
                       value |-> find_min_capacity(graphs[residual_graph[a]], p)]
    /\ UNCHANGED <<graphs, lists, phase, source, sink, algVars>>

RECURSIVE FordFulkersonLoop(_, _, _, _, _, _, _)
\* the loop of compute_max_flow_with_history run to its end on residual graph
\* g by variant b; residual_graphs holds the graphs themselves
FordFulkersonLoop(b, g, src, snk, mf, ps, rgs) ==
    LET r == find_augmenting_path(b, g, src, snk)
    IN IF r.path = None
       THEN [max_flow |-> mf, paths |-> ps, residual_graphs |-> rgs]
       ELSE LET flow == find_min_capacity(g, r.path)
                u == update_residual_capacities(g, NullTracker, r.path, flow)
            IN FordFulkersonLoop(b, u.g, src, snk, FloatAdd(mf, flow),
                                 Append(ps, r.path), Append(rgs, u.g))

\* b-variant instance constructed on graph g0, then
\* compute_max_flow_with_history(src, snk)
FreshRun(b, g0, src, snk) ==
    LET rg == InitResidual(g0)
    IN FordFulkersonLoop(b, rg, src, snk, 0, <<>>, <<rg>>)

\* Right after a's compute_max_flow_with_history returned, the caller builds a
\* new b-variant instance on a's final residual graph and computes again with
\* the same source and sink; the new instance is dropped afterwards.
Rerun(a, b) ==
    /\ pc[a] = "done"
    /\ calls[a] = 1
    /\ method[a] = "compute_max_flow_with_history"
    /\ a = "bfs" => pc["dfs"] = "none"
    /\ result' = [op |-> "rerun", kind |-> "tuple", arg |-> <<a, b>>,
                  value |-> FreshRun(b, graphs[residual_graph[a]], source, sink)]
    /\ UNCHANGED <<graphs, lists, phase, source, sink, algVars>>

Next ==
    \/ \E u, v \in 0..MaxNode, capacity \in MinCap..MaxCap : AddEdge(u, v, capacity)
    \/ \E n \in 0..(MaxNode - 1), t \in NodeTypes \cup {"invalid_type"} : AddNode(n, t)
    \/ ValidateGraph
    \/ GetGraph
    \/ \E a \in Algs : Construct(a)
    \/ \E a \in Algs, m \in Methods : Call(a, m)
    \/ \E a \in Algs : Search(a)
    \/ \E a \in Algs : Augment(a)
    \/ \E a, b \in Algs : Rerun(a, b)
    \/ \E a \in Algs : IncrementStep(a)
    \/ \E a \in Algs, flow \in 1..MaxCap : AddPath(a, flow)
    \/ \E a \in Algs : GetMetrics(a)
    \/ \E a \in Algs, p \in UnitPaths : FindMinCapacity(a, p)

Spec == Init /\ [][Next]_vars

\* The caller of the integration tests: source is the node the handler was
\* told is the source (node 0), sink the one it was told is the sink (the last)
InitLoop ==
    InitAlgs /\ (InitFixture \/ InitUnit \/ InitNodes
                 \/ (InitHandler /\ source = 0 /\ sink = MaxNode))

\* A compute call is one thread running a loop: once it is in the loop, its
\* next step is taken. Search(a) is enabled exactly when pc[a] = "search", and
\* its weak fairness is written with that state predicate for ENABLED.
FairSpec ==
    /\ InitLoop /\ [][Next]_vars
    /\ \A a \in Algs :
           /\ WF_vars(Augment(a))
           /\ []<>(pc[a] # "search") \/ []<><<Search(a)>>_vars

----------------------------------------------------------------------------
\* Notions the properties are stated with

Constructed(a) == pc[a] # "none"

\* the call made on instance a is the first since a was built on the network
FirstCall(a) == calls[a] = 1

InHistoryCall(a) ==
    /\ method[a] = "compute_max_flow_with_history"
    /\ pc[a] \in {"search", "augment", "done"}

Residual(a) == graphs[residual_graph[a]]

Network == graphs[graph]

RECURSIVE SumOver(_, _)
SumOver(S, f) ==
    IF S = {} THEN 0
    ELSE LET x == CHOOSE y \in S : TRUE IN FloatAdd(f[x], SumOver(S \ {x}, f))

\* the nodes reachable from the nodes of S over edges of g with capacity > 0
RECURSIVE ReachableFrom(_, _)
ReachableFrom(g, S) ==
    LET T == S \cup {e[2] : e \in {d \in DOMAIN g.cap : d[1] \in S /\ g.cap[d] > 0}}
    IN IF T = S THEN S ELSE ReachableFrom(g, T)

\* total capacity of the edges of net that leave S
CutCapacity(net, S) ==
    SumOver({e \in DOMAIN net.cap : e[1] \in S /\ e[2] \notin S}, net.cap)

\* original capacity, 0 for a direction that is no edge of the network
OriginalCapacity(u, v) == IF has_edge(Network, u, v) THEN Network.cap[<<u, v>>] ELSE 0

ReturnedFlow(a) == IF ret[a].kind = "tuple" THEN ret[a].value[1] ELSE ret[a].value

PathEdges(p) == {<<p[i], p[i + 1]>> : i \in 1..(Len(p) - 1)}

\* the smallest capacity of g on the edges of path p (infinite for a path
\* without edges)
Bottleneck(g, p) ==
    IF PathEdges(p) = {} THEN Inf
    ELSE CHOOSE c \in {g.cap[e] : e \in PathEdges(p)} : \A e \in PathEdges(p) : c <= g.cap[e]

\* g after flow f went along p: f less on every edge of p, f more on every
\* reverse of an edge of p, nothing else changed
Pushed(g, p, f) ==
    [g EXCEPT !.cap = [e \in DOMAIN g.cap |->
        g.cap[e] - (IF e \in PathEdges(p) THEN f ELSE 0)
                 + (IF <<e[2], e[1]>> \in PathEdges(p) THEN f ELSE 0)]]

Antiparallel(net) == \E e \in DOMAIN net.cap : <<e[2], e[1]>> \in DOMAIN net.cap

----------------------------------------------------------------------------
\* C1: when compute_max_flow_with_history, called on an instance newly built
\* on the network, has returned, the nodes reachable
\* from source over positive residual capacity do not include sink, and the
\* network edges leaving that set have total capacity equal to the returned
\* max_flow (max-flow / min-cut duality).
C1_MinCutEqualsMaxFlow ==
    \A a \in Algs :
        (pc[a] = "done" /\ FirstCall(a) /\ method[a] = "compute_max_flow_with_history") =>
            LET S == ReachableFrom(Residual(a), {source})
            IN /\ sink \notin S
               /\ CutCapacity(Network, S) = ret[a].value[1]

\* both variants returned 15 on the graph of test_bfs_max_flow
C1_Witness ==
    /\ Network = TestGraph
    /\ \A a \in Algs :
          /\ pc[a] = "done" /\ method[a] = "compute_max_flow_with_history"
          /\ ret[a].value[1] = 15

\* C2: BFSMaxFlow and DFSMaxFlow run on the same network with the same source
\* and sink return the same max_flow (each from the first call on its instance).
C2_SameMaxFlow ==
    (\A a \in Algs : pc[a] = "done" /\ FirstCall(a)) =>
        ReturnedFlow("bfs") = ReturnedFlow("dfs")

\* both returned, with a different number of augmenting paths
C2_Witness ==
    /\ \A a \in Algs : pc[a] = "done" /\ FirstCall(a)
    /\ ReturnedFlow("bfs") > 0
    /\ metrics["bfs"].paths # metrics["dfs"].paths

\* C3: every edge of every residual graph, the current one and each recorded
\* snapshot, has capacity >= 0.
C3_CapacityNonNegative ==
    \A i \in 1..Len(graphs) : \A e \in DOMAIN graphs[i].cap : graphs[i].cap[e] >= 0

\* a snapshot recorded after an augmentation that saturated an edge
C3_Witness ==
    \E a \in Algs :
        /\ Len(residual_graphs[a]) >= 2
        /\ \E e \in DOMAIN Network.cap :
               graphs[residual_graphs[a][2]].cap[e] = 0

\* C4: for every edge (u,v) of the residual graph,
\* r(u,v) + r(v,u) = c(u,v) + c(v,u), c being the original capacity.
C4_ResidualPairSum ==
    \A a \in Algs : Constructed(a) =>
        \A e \in DOMAIN Residual(a).cap :
            Residual(a).cap[e] + Residual(a).cap[<<e[2], e[1]>>]
                = OriginalCapacity(e[1], e[2]) + OriginalCapacity(e[2], e[1])

\* flow has been pushed over an edge whose reverse is an edge of the network too
C4_Witness ==
    \E a \in Algs : Constructed(a) /\
        \E e \in DOMAIN Network.cap :
            /\ <<e[2], e[1]>> \in DOMAIN Network.cap
            /\ Residual(a).cap[e] < Network.cap[e]

\* flow on a network edge in a residual graph sg: original capacity - residual
FlowOn(sg, e) == Network.cap[e] - sg.cap[e]

InFlow(sg, n) ==
    SumOver({e \in DOMAIN Network.cap : e[2] = n}, [e \in DOMAIN Network.cap |-> FlowOn(sg, e)])

OutFlow(sg, n) ==
    SumOver({e \in DOMAIN Network.cap : e[1] = n}, [e \in DOMAIN Network.cap |-> FlowOn(sg, e)])

Conserved(sg) ==
    \A n \in NodesOf(Network) \ {source, sink} : InFlow(sg, n) = OutFlow(sg, n)

\* C5 as claimed: in every recorded residual snapshot, at every node other than
\* source and sink, the flow entering over network edges equals the flow
\* leaving over network edges, on every network.
C5_FlowConservation_Original ==
    \A a \in Algs : \A k \in 1..Len(residual_graphs[a]) :
        Conserved(graphs[residual_graphs[a][k]])

\* C5, the part that does hold: the same on networks in which no edge (u,v)
\* has its reverse (v,u) as an edge too.
C5_ConservationWithoutAntiparallel ==
    ~Antiparallel(Network) =>
        \A a \in Algs : \A k \in 1..Len(residual_graphs[a]) :
            Conserved(graphs[residual_graphs[a][k]])

\* C6: during and after compute_max_flow_with_history the snapshot list has
\* one entry more than the path list; entry 0 is the residual graph as it was
\* before the first search (in the first call on an instance: the residual
\* graph as constructed), entry i is entry i-1 with the bottleneck of the
\* i-th path subtracted on the path's edges and added on their reverses, and
\* outside the middle of a loop body the last entry equals the current
\* residual graph.
C6_SnapshotHistory ==
    \A a \in Algs : InHistoryCall(a) =>
        LET rgs == residual_graphs[a]
        IN /\ Len(rgs) = Len(paths[a]) + 1
           /\ FirstCall(a) => graphs[rgs[1]] = InitResidual(Network)
           /\ \A i \in 1..Len(paths[a]) :
                  graphs[rgs[i + 1]] =
                      Pushed(graphs[rgs[i]], paths[a][i],
                             Bottleneck(graphs[rgs[i]], paths[a][i]))
           /\ pc[a] # "augment" => graphs[rgs[Len(rgs)]] = Residual(a)
           /\ pc[a] = "done" => /\ ret[a].value[3] = rgs
                                /\ ret[a].value[2] = paths[a]

\* a returned history of at least two augmentations
C6_Witness ==
    \E a \in Algs :
        /\ pc[a] = "done" /\ method[a] = "compute_max_flow_with_history"
        /\ Len(ret[a].value[3]) >= 3

\* C7: a recorded residual snapshot is never altered by a later step, and
\* within a call the list of snapshots only grows at its end.
C7_SnapshotsFrozen ==
    [][\A a \in Algs : \A k \in 1..Len(residual_graphs[a]) :
          /\ graphs'[residual_graphs[a][k]] = graphs[residual_graphs[a][k]]
          /\ calls'[a] = calls[a] =>
                 /\ Len(residual_graphs'[a]) >= k
                 /\ residual_graphs'[a][k] = residual_graphs[a][k]]_vars

\* the call has returned and the first snapshot differs from the final graph
C7_Witness ==
    \E a \in Algs :
        /\ pc[a] = "done" /\ method[a] = "compute_max_flow_with_history"
        /\ graphs[ret[a].value[3][1]] # Residual(a)

\* C8: the metrics list has one entry per augmentation; entry i has
\* paths_found = i and total_flow = the sum of the bottlenecks of the first
\* i paths.
C8_MetricsHistory ==
    \A a \in Algs : InHistoryCall(a) =>
        LET mh == metrics_history[a]
            rgs == residual_graphs[a]
            b == [j \in 1..Len(paths[a]) |-> Bottleneck(graphs[rgs[j]], paths[a][j])]
        IN /\ Len(mh) = Len(paths[a])
           /\ \A i \in 1..Len(mh) :
                  /\ mh[i].paths_found = i
                  /\ mh[i].total_flow = SumOver(1..i, b)
           /\ pc[a] = "done" => ret[a].value[4] = mh

\* a returned metrics list of at least two entries
C8_Witness ==
    \E a \in Algs :
        /\ pc[a] = "done" /\ method[a] = "compute_max_flow_with_history"
        /\ Len(ret[a].value[4]) >= 2
        /\ ret[a].value[4][2].total_flow > ret[a].value[4][1].total_flow

\* C9 as claimed: what a recorded metrics snapshot shows never changes; its
\* visited_nodes list in particular reads the same after every later step.
C9_MetricsSnapshotImmutable ==
    [][\A a \in Algs : \A i \in 1..Len(metrics_history[a]) :
          lists'[metrics_history[a][i].visited_nodes]
              = lists[metrics_history[a][i].visited_nodes]]_vars

\* C10 as claimed: compute_max_flow returns a triple (max_flow, paths,
\* residual_graphs) with len(residual_graphs) = len(paths) + 1.
C10_ComputeMaxFlowReturnsTriple ==
    \A a \in Algs : (pc[a] = "done" /\ method[a] = "compute_max_flow") =>
        /\ ret[a].kind = "tuple"
        /\ Len(ret[a].value) = 3
        /\ Len(ret[a].value[3]) = Len(ret[a].value[2]) + 1

----------------------------------------------------------------------------
\* the source or the sink the caller passes is no node of a's residual graph
AbsentNode(a) == ~has_node(Residual(a), source) \/ ~has_node(Residual(a), sink)

\* C11: a compute call with a source or sink that is no node of the residual
\* graph raises KeyError before any search: the tracker (not started, step
\* counter included), the visited lists and the residual graph are as they
\* were before the call.
C11_AbsentNodeKeyError ==
    [][\A a \in Algs :
          (pc[a] = "ready" /\ pc'[a] # "ready" /\ AbsentNode(a)) =>
              /\ pc'[a] = "raised"
              /\ ret'[a].kind = "KeyError"
              /\ metrics'[a] = metrics[a]
              /\ metrics'[a].start_time = "None"
              /\ lists' = lists
              /\ graphs' = graphs
              /\ residual_graph' = residual_graph]_vars

\* a call on a network with an edge raised KeyError
C11_Witness ==
    \E a \in Algs :
        /\ pc[a] = "raised" /\ ret[a].kind = "KeyError"
        /\ AbsentNode(a)
        /\ number_of_edges(Network) > 0

\* the caller passes the same node of the network as source and as sink
SourceIsSink == source = sink /\ has_node(Network, source)

\* C12 as claimed: a compute call with source = sink, a node of the network,
\* ends in an error: once made, the call has raised; it is not in its loop and
\* has returned no flow value.
C12_SourceEqualsSinkRaises ==
    SourceIsSink =>
        \A a \in Algs : pc[a] \notin {"none", "ready"} =>
            /\ pc[a] = "raised"
            /\ ret[a].kind \notin {"float", "tuple"}

\* C12, what the code does instead: the search returns the path [source]
\* every time, its bottleneck is infinite, and the loop is never left.
C12_LoopNeverLeft ==
    SourceIsSink =>
        \A a \in Algs :
            /\ pc[a] \notin {"done", "raised"}
            /\ Running(a) =>
                   /\ \A b \in Algs :
                          find_augmenting_path(b, Residual(a), source, sink).path = <<source>>
                   /\ find_min_capacity(Residual(a), <<source>>) = Inf
                   /\ max_flow[a] \in {0, Inf}
                   /\ Residual(a) = InitResidual(Network)

\* the sum of the capacities of the network edges that leave source
SourceCapacity == CutCapacity(Network, {source})

\* C13: with source # sink a call that is in its loop has made at most
\* (sum of the capacities of the edges leaving source) augmentations, and it
\* eventually finds no augmenting path and returns.
C13_LoopTerminates ==
    /\ [](source # sink =>
            \A a \in Algs : (Running(a) \/ pc[a] = "done") =>
                metrics[a].paths <= SourceCapacity)
    /\ \A a \in Algs : (source # sink /\ Running(a)) ~> (pc[a] = "done" /\ path[a] = None)

\* a call returned after as many augmentations as the source's edges allow
C13_Witness ==
    \E a \in Algs :
        /\ source # sink /\ pc[a] = "done"
        /\ metrics[a].paths = SourceCapacity
        /\ metrics[a].paths >= 2

\* C14: computing again, with either variant, on a new instance built from the
\* final residual graph of a terminated computation (same source and sink)
\* returns max_flow 0, no path and a snapshot list of length 1.
C14_RerunOnFinalResidual ==
    result.op = "rerun" =>
        /\ result.value.max_flow = 0
        /\ result.value.paths = <<>>
        /\ Len(result.value.residual_graphs) = 1

\* re-run by the other variant after a computation that pushed flow
C14_Witness ==
    /\ result.op = "rerun"
    /\ result.arg[1] # result.arg[2]
    /\ ReturnedFlow(result.arg[1]) > 0

\* C15 as claimed: on the Scenario A network, from 0 to 3, each variant
\* returns max_flow 13 and records exactly 3 augmenting paths (in the first
\* call on its instance).
C15_ScenarioA_Original ==
    Network = ScenarioA =>
        \A a \in Algs : (pc[a] = "done" /\ FirstCall(a)) =>
            /\ ReturnedFlow(a) = 13
            /\ metrics[a].paths = 3

\* C15 amended: on the Scenario A network, from 0 to 3, each variant, in the
\* first call on its instance, returns
\* max_flow 13; DFS records exactly 3 augmenting paths, BFS exactly 2
\* ([0,1,3] with flow 4 and [0,2,3] with flow 9).
C15_ScenarioA ==
    Network = ScenarioA =>
        /\ \A a \in Algs : (pc[a] = "done" /\ FirstCall(a)) => ReturnedFlow(a) = 13
        /\ (pc["dfs"] = "done" /\ FirstCall("dfs")) => metrics["dfs"].paths = 3
        /\ (pc["bfs"] = "done" /\ FirstCall("bfs")) =>
               /\ metrics["bfs"].paths = 2
               /\ method["bfs"] = "compute_max_flow_with_history" =>
                      /\ paths["bfs"] = << <<0, 1, 3>>, <<0, 2, 3>> >>
                      /\ metrics_history["bfs"][1].total_flow = 4
                      /\ metrics_history["bfs"][2].total_flow = 13

\* both variants have returned on Scenario A, with their histories
C15_Witness ==
    /\ Network = ScenarioA
    /\ \A a \in Algs :
          pc[a] = "done" /\ method[a] = "compute_max_flow_with_history"
    /\ Len(paths["dfs"]) = 3

\* source and sink are nodes of the network and no path of network edges
\* leads from source to sink
SinkUnreachable ==
    /\ has_node(Network, source) /\ has_node(Network, sink)
    /\ sink \notin ReachableFrom(Network, {source})

\* C16: when the sink cannot be reached from the source in the network, a
\* call of either variant makes no augmentation and raises nothing; it returns
\* max_flow 0, and with history no path, no metrics entry and one snapshot,
\* the residual graph as constructed.
C16_UnreachableSinkGivesZero ==
    SinkUnreachable =>
        \A a \in Algs :
            /\ pc[a] \notin {"augment", "raised"}
            /\ Constructed(a) => metrics[a].paths = 0 /\ max_flow[a] = 0
            /\ pc[a] = "done" =>
                   /\ ret[a].kind \in {"float", "tuple"}
                   /\ ReturnedFlow(a) = 0
                   /\ method[a] = "compute_max_flow_with_history" =>
                          /\ ret[a].value[2] = <<>>
                          /\ Len(ret[a].value[3]) = 1
                          /\ graphs[ret[a].value[3][1]] = InitResidual(Network)
                          /\ ret[a].value[4] = <<>>

\* both variants returned on a network in which edges leave the source and
\* the sink, but none leads to the sink
C16_Witness ==
    /\ SinkUnreachable
    /\ \A a \in Algs : pc[a] = "done" /\ method[a] = "compute_max_flow_with_history"
    /\ \E e \in DOMAIN Network.cap : e[1] = source
    /\ \E e \in DOMAIN Network.cap : e[1] = sink

\* C17: get_metrics on a tracker on which start_tracking was never called
\* raises RuntimeError, and on a started tracker it returns a snapshot of the
\* counters; in both cases it leaves the tracker and its visited list as they
\* were.
C17_GetMetricsNeedsStart ==
    [][result'.op = "get_metrics" =>
          LET a == result'.arg[1]
          IN /\ metrics' = metrics
             /\ lists' = lists
             /\ metrics[a].start_time = "None" => result'.kind = "RuntimeError"
             /\ metrics[a].start_time # "None" =>
                    /\ result'.kind = "AlgorithmMetrics"
                    /\ result'.value.steps_count = metrics[a].steps
                    /\ result'.value.paths_found = metrics[a].paths
                    /\ result'.value.total_flow = metrics[a].total_flow
                    /\ result'.value.visited_nodes = metrics[a].visited]_vars

\* get_metrics raised on a tracker that was never started
C17_Witness ==
    /\ result.op = "get_metrics"
    /\ result.kind = "RuntimeError"
    /\ metrics[result.arg[1]].start_time = "None"

\* the latest direct call was made on a tracker that was never started
OnUnstartedTracker ==
    /\ result.op \in {"increment_step", "add_path"}
    /\ metrics[result.arg[1]].start_time = "None"

\* C18 as claimed: increment_step and add_path on a tracker that was never
\* started fail with a state-ordering error and leave the step, path and flow
\* counters as they were (0, as constructed).
C18_CountersNeedStart ==
    OnUnstartedTracker =>
        /\ result.kind = "RuntimeError"
        /\ metrics[result.arg[1]].steps = 0
        /\ metrics[result.arg[1]].paths = 0
        /\ metrics[result.arg[1]].total_flow = 0

\* the path handed to find_min_capacity has fewer than two nodes, or a
\* consecutive pair that is no edge of the residual graph
InvalidPath(g, p) ==
    \/ Len(p) < 2
    \/ \E i \in 1..(Len(p) - 1) : <<p[i], p[i + 1]>> \notin DOMAIN g.cap

\* C19 as claimed: find_min_capacity of a path with fewer than two nodes, or
\* with a consecutive pair that is no edge of the residual graph, fails with an
\* error and returns no capacity.
C19_InvalidPathRaises ==
    result.op = "find_min_capacity" =>
        (InvalidPath(Residual(result.arg[1]), result.arg[2]) =>
            result.kind \notin {"float", "none"})

\* C19, the part that holds: a path of two or more nodes with a pair that is
\* no edge raises KeyError, and a path along edges returns its smallest
\* capacity.
C19_NonEdgeRaisesKeyError ==
    result.op = "find_min_capacity" =>
        LET g == Residual(result.arg[1])
            p == result.arg[2]
        IN Len(p) >= 2 =>
              IF InvalidPath(g, p) THEN result.kind = "KeyError"
              ELSE result.kind = "float" /\ result.value = Bottleneck(g, p)

C21_DuplicateEdgeRejected ==
    [][\A e \in DOMAIN Network.cap :
          /\ e \in DOMAIN graphs'[graph].cap
          /\ graphs'[graph].cap[e] = Network.cap[e]]_vars

\* C21, what does hold: the network has one edge per ordered pair at most
\* (a second add_edge replaces the capacity, the adjacency list does not grow).
C21_OneEdgePerPair ==
    \A u \in NodesOf(Network) :
        /\ Cardinality(SeqToSet(Network.adj[u])) = Len(Network.adj[u])
        /\ \A v \in NodesOf(Network) :
               has_edge(Network, u, v) <=> v \in SeqToSet(Network.adj[u])

HasRole(g, t) == \E n \in NodesOf(g) : g.type[n] = t

\* C22: validate_graph raises ValueError when the graph has no source node or
\* no sink node (the empty graph included), returns True for every graph
\* built through add_node and add_edge that has both, and leaves the graph as
\* it was.
C22_ValidateGraph ==
    /\ [](result.op = "validate_graph" =>
            IF HasRole(Network, "source") /\ HasRole(Network, "sink")
            THEN result.kind = "True"
            ELSE result.kind = "ValueError")
    /\ [][result'.op = "validate_graph" => graphs' = graphs]_vars

\* validate_graph raised on a graph with a source, an edge and no sink
C22_Witness ==
    /\ result.op = "validate_graph" /\ result.kind = "ValueError"
    /\ HasRole(Network, "source")
    /\ number_of_edges(Network) > 0

\* C23: once the network is handed to the algorithms, no step (construction of
\* an instance, a call, a search, an augmentation, a rerun, a direct call)
\* changes the caller's network: nodes, roles, edges and capacities stay.
C23_NetworkNeverChanged ==
    [][(phase \in {"ready", "unit"}) => (graphs'[graph] = graphs[graph])]_vars

\* both instances have pushed flow through residual graphs of their own
C23_Witness ==
    \A a \in Algs :
        /\ pc[a] = "done"
        /\ max_flow[a] > 0
        /\ Residual(a) # InitResidual(Network)

\* path p of residual graph g leads from src to snk over edges of positive
\* capacity and visits no node twice
AugmentingPath(g, p, src, snk) ==
    /\ Len(p) >= 1
    /\ p[1] = src
    /\ p[Len(p)] = snk
    /\ Cardinality(SeqToSet(p)) = Len(p)
    /\ \A i \in 1..(Len(p) - 1) :
           /\ has_edge(g, p[i], p[i + 1])
           /\ g.cap[<<p[i], p[i + 1]>>] > 0

\* C24: with source # sink, every path a search returns starts at source,
\* ends at sink, has no node twice and runs over edges whose residual
\* capacity is positive at the time of the search; its bottleneck is positive
\* and the augmentation that follows makes the accumulated flow larger.
C24_PathIsAugmenting ==
    /\ [](\A a \in Algs :
              (pc[a] = "augment" /\ source # sink) =>
                  /\ AugmentingPath(Residual(a), path[a], source, sink)
                  /\ Bottleneck(Residual(a), path[a]) > 0)
    /\ [][\A a \in Algs :
              (pc[a] = "augment" /\ pc'[a] # "augment" /\ source # sink) =>
                  max_flow'[a] > max_flow[a]]_vars

\* the depth-first search returned a second path, of three nodes
C24_Witness ==
    /\ pc["dfs"] = "augment"
    /\ source # sink
    /\ max_flow["dfs"] > 0
    /\ Len(path["dfs"]) = 3

\* the nodes the search that instance a is about to run examines, in order
Examined(a) == find_augmenting_path(a, Residual(a), source, sink).examined

C25_BFSExaminesOnce ==
    pc["bfs"] = "search" =>
        /\ Cardinality(SeqToSet(Examined("bfs"))) = Len(Examined("bfs"))
        /\ Len(Examined("bfs")) <= Len(Residual("bfs").nodes)

\* the nodes that k or fewer edges of positive capacity lead to from src
RECURSIVE WithinSteps(_, _, _)
WithinSteps(g, src, k) ==
    IF k = 0 THEN {src}
    ELSE LET S == WithinSteps(g, src, k - 1)
         IN S \cup {e[2] : e \in {d \in DOMAIN g.cap : d[1] \in S /\ g.cap[d] > 0}}

\* the least number of edges of positive capacity from src to a reachable snk
Distance(g, src, snk) ==
    CHOOSE k \in 0..Len(g.nodes) :
        /\ snk \in WithinSteps(g, src, k)
        /\ \A j \in 0..(k - 1) : snk \notin WithinSteps(g, src, j)

\* C26: a path the breadth-first search returns has the least number of
\* edges among the paths from source to sink over edges of positive residual
\* capacity, and the search returns None only when there is no such path.
C26_BFSPathIsShortest ==
    (pc["bfs"] = "search" /\ ~AbsentNode("bfs")) =>
        LET g == Residual("bfs")
            p == find_augmenting_path("bfs", g, source, sink).path
        IN IF sink \in ReachableFrom(g, {source})
           THEN /\ p # None
                /\ AugmentingPath(g, p, source, sink)
                /\ Len(p) - 1 = Distance(g, source, sink)
           ELSE p = None

\* the search is about to return a path of two edges though the residual
\* graph has a longer path as well, and the edge from source to sink is used up
C26_Witness ==
    /\ pc["bfs"] = "search" /\ ~AbsentNode("bfs")
    /\ Len(Residual("bfs").nodes) = 4
    /\ max_flow["bfs"] > 0
    /\ sink \in ReachableFrom(Residual("bfs"), {source})
    /\ Distance(Residual("bfs"), source, sink) = 2
    /\ DFSFindAugmentingPath(Residual("bfs"), source, sink).path # None
    /\ Len(DFSFindAugmentingPath(Residual("bfs"), source, sink).path) = 4

\* the numbers of S in ascending order
RECURSIVE Ascending(_)
Ascending(S) ==
    IF S = {} THEN <<>>
    ELSE LET m == CHOOSE x \in S : \A y \in S : x <= y
         IN <<m>> \o Ascending(S \ {m})

\* the network with the nodes, edges and capacities of g whose edges were
\* inserted in ascending order: every adjacency lists its successors ascending
AscendingInsertion(g) ==
    [g EXCEPT !.adj = [u \in DOMAIN g.adj |-> Ascending(SeqToSet(g.adj[u]))]]

\* the capacities of the snapshots of a run
SnapshotCapacities(rgs) == [i \in 1..Len(rgs) |-> rgs[i].cap]

\* C27 as claimed: the order in which the edges were inserted makes no
\* difference: the first computation with history on the network finds the sequence
\* of paths, and leaves the snapshots, that the same variant finds on the
\* network with the same edges inserted in ascending order.
C27_InsertionOrderIrrelevant ==
    \A a \in Algs :
        (pc[a] = "done" /\ FirstCall(a) /\ InHistoryCall(a) /\ source # sink) =>
            LET r == FreshRun(a, AscendingInsertion(Network), source, sink)
            IN /\ paths[a] = r.paths
               /\ [i \in 1..Len(residual_graphs[a]) |-> graphs[residual_graphs[a][i]].cap]
                      = SnapshotCapacities(r.residual_graphs)

\* C27, what does hold: the order of insertion does not change the flow value.
C27_SameFlowValue ==
    \A a \in Algs :
        (pc[a] = "done" /\ FirstCall(a) /\ InHistoryCall(a) /\ source # sink) =>
            max_flow[a] = FreshRun(a, AscendingInsertion(Network), source, sink).max_flow

\* C28: update_residual_capacities(path, flow), as every augmentation calls
\* it, takes flow from r(u,v) and adds it to r(v,u) for each consecutive pair
\* (u,v) of the path, keeps the capacity of every other residual edge, and
\* adds or removes no node and no edge.
C28_UpdateChangesPathOnly ==
    [][\A a \in Algs :
          (pc[a] = "augment" /\ pc'[a] = "search") =>
              LET g == graphs[residual_graph[a]]
                  h == graphs'[residual_graph[a]]
                  flow == find_min_capacity(g, path[a])
              IN /\ h.nodes = g.nodes /\ h.type = g.type /\ h.adj = g.adj
                 /\ DOMAIN h.cap = DOMAIN g.cap
                 /\ \A e \in DOMAIN g.cap :
                        h.cap[e] =
                            IF e \in PathEdges(path[a]) THEN g.cap[e] - flow
                            ELSE IF <<e[2], e[1]>> \in PathEdges(path[a])
                                 THEN g.cap[e] + flow
                                 ELSE g.cap[e]]_vars

\* an augmentation along a path of three edges has left other edges of the
\* residual graph with the capacity they had
C28_Witness ==
    /\ pc["dfs"] = "search"
    /\ paths["dfs"] # <<>>
    /\ LET p == paths["dfs"][Len(paths["dfs"])]
       IN /\ Len(p) = 4
          /\ \E e \in DOMAIN Residual("dfs").cap :
                 /\ e \notin PathEdges(p)
                 /\ <<e[2], e[1]>> \notin PathEdges(p)
                 /\ Residual("dfs").cap[e] > 0

\* C29: when a compute call has returned, the tracker agrees with the result:
\* total_flow is the returned max_flow, paths_found the number of
\* augmentations (every augmentation adds one, a search none; with history it
\* is the number of returned paths), steps_count >= paths_found + 1, the
\* visited list holds no node twice, and every entry of residual_capacities
\* is the capacity the edge has in the residual graph.
C29_TrackerAgreesWithResult ==
    /\ [](\A a \in Algs :
              pc[a] = "done" =>
                  LET m == get_metrics(metrics[a])
                      visited_nodes == lists[m.visited_nodes]
                  IN /\ m.total_flow = ReturnedFlow(a)
                     /\ m.total_flow = max_flow[a]
                     /\ InHistoryCall(a) => m.paths_found = Len(paths[a])
                     /\ m.steps_count >= m.paths_found + 1
                     /\ Cardinality(SeqToSet(visited_nodes)) = Len(visited_nodes)
                     /\ \A e \in DOMAIN m.residual_capacities :
                            /\ has_edge(Residual(a), e[1], e[2])
                            /\ m.residual_capacities[e] = Residual(a).cap[e])
    /\ [][\A a \in Algs :
              /\ (pc[a] = "augment" /\ pc'[a] = "search") =>
                     metrics'[a].paths = metrics[a].paths + 1
              /\ (pc[a] = "search" /\ pc'[a] # "search") =>
                     metrics'[a].paths = metrics[a].paths
              /\ (pc[a] = "ready" /\ pc'[a] = "search") => metrics'[a].paths = 0]_vars

\* compute_max_flow has returned after two augmentations and more examined
\* nodes than searches
C29_Witness ==
    \E a \in Algs :
        /\ pc[a] = "done" /\ method[a] = "compute_max_flow"
        /\ metrics[a].paths = 2
        /\ metrics[a].steps > 3
        /\ metrics[a].total_flow > 2
        /\ Len(lists[metrics[a].visited]) = 3

\* C30: the residual graph is not reset between calls. A further compute call
\* on an instance whose call with the same source and sink has returned
\* starts the tracker anew (counters 0, no residual capacities, an empty
\* visited list), leaves the residual graph as the earlier call left it, finds
\* no augmenting path and returns 0; with history the path list and the
\* metrics list are empty and the one snapshot equals that residual graph.
C30_SecondCallReturnsZero ==
    /\ [](\A a \in Algs :
              calls[a] >= 2 =>
                  /\ pc[a] \in {"search", "done"}
                  /\ max_flow[a] = 0
                  /\ metrics[a].paths = 0 /\ metrics[a].total_flow = 0
                  /\ metrics[a].residual_caps = <<>>
                  /\ pc[a] = "done" =>
                         /\ ReturnedFlow(a) = 0
                         /\ metrics[a].steps >= 1
                         /\ InHistoryCall(a) =>
                                /\ ret[a].value[2] = <<>>
                                /\ Len(ret[a].value[3]) = 1
                                /\ graphs[ret[a].value[3][1]] = Residual(a)
                                /\ ret[a].value[4] = <<>>)
    /\ [][\A a \in Algs :
              (pc[a] = "done" /\ pc'[a] = "search") =>
                  /\ metrics'[a].steps = 0
                  /\ lists'[metrics'[a].visited] = <<>>]_vars
    /\ [][\A a \in Algs :
              (pc[a] = "done" \/ calls[a] >= 2) =>
                  graphs'[residual_graph[a]] = graphs[residual_graph[a]]]_vars

\* a second call, with history, has returned 0 on a network whose maximum
\* flow from source to sink is positive
C30_Witness ==
    \E a \in Algs :
        /\ calls[a] = 2 /\ pc[a] = "done" /\ InHistoryCall(a)
        /\ ReturnedFlow(a) = 0
        /\ FreshRun(a, Network, source, sink).max_flow > 0

====
